---- MODULE Spec2Model ----
(***************************************************************************)
(* ManasX governance pipeline: the ContinuousMonitor orchestrator          *)
(* (src/src/monitor/ContinuousMonitor.js) with the collaborators it calls  *)
(* (AIDetector, AIAuditor, DriftDetector, RuleEngine, LogFormatter).       *)
(*                                                                         *)
(* One step of the model is one macrotask of the Node event loop: a        *)
(* handler runs, with every microtask continuation it triggers, up to the  *)
(* next await of real I/O.  Time is counted in units of 100 ms and kept    *)
(* relative: a timeout holds the time left until it fires.                 *)
(***************************************************************************)
EXTENDS Integers, Sequences, FiniteSets, TLC

\* ------------------------------------------------------------ bounds ----
\* the lifecycle scenario: sessions of start() and stop()
LcSessions == 2
LcEvents == 1
LcRuns == 1
\* the debounce scenario: bursts of filesystem events in one session
DbEvents == 3
DbRuns == 3
\* the analysis scenario: analyzeFile, its stages and its logs
AnEvents == 1
AnRuns == 1
AnViol == 1
\* timeouts pending at once
MaxTimers == 2

\* ------------------------------------------------ program constants ----
\* options.debounceMs (a 200 ms window), in units of 100 ms
DebounceMs == 2
\* the delay of the rename callback (100 ms), in units of 100 ms
RenameDelay == 1
\* options.maxLogSize, in log lines
MaxLogSize == 2
\* the limit getOrganizationalContext passes to getRecentAnalysis
RecentLimit == 5

\* files under options.watchDirectory, all in the directory Dir
Files == {"a.js"}
Dir == "."

\* the scenario of overlapping analyses: events, analyzeFile runs, violations per stage
OvEvents == 2
OvRuns == 2
OvViol == 1

NoTimer == 0
TimerIds == 1..MaxTimers

VARIABLES
  cap,            \* the budget of the scenario: a constant of the behaviour
  opts,           \* this.options: enableAIDetection, enableDriftDetection, enableRuleChecking
  isRunning,      \* this.isRunning
  starting,       \* start() calls suspended in loadConfiguration
  hasDetector,    \* this.driftDetector !== null
  hasRules,       \* this.organizationalRules
  watchers,       \* keys of this.watchers
  live,           \* open fs watchers per watched path
  debounceTimers, \* this.debounceTimers: path -> timer id
  timers,         \* pending debounce timeouts
  renameTimers,   \* pending 100 ms timeouts of the rename callback
  exists,         \* which files exist on disk
  stats,          \* this.stats
  runs,           \* the analyzeFile invocations suspended in an await, oldest first
  nRuns,          \* analyzeFile invocations that passed the existence check
  lastRun,        \* the analyzeFile invocation that ended last
  emitted,        \* events emitted so far, per name
  contextLog,     \* lines of .manasx/context.log
  monitorLog,     \* lines in options.logFile
  dailyLog,       \* lines in monitor-<day>.log
  violationsLog,  \* reports in violations-<day>.log
  summaryLog,     \* summary reports written
  lastStart,      \* outcome of the latest start() call
  startEnv,       \* what the latest start() that got past loadConfiguration found on disk
  evCount,        \* filesystem events delivered so far
  age,            \* per path, time since the latest handleFileChange, -1 if none
  lowBursts,      \* per path, handleFileChange calls more than DebounceMs after the previous
  highBursts,     \* per path, handleFileChange calls at least DebounceMs after the previous
  fired,          \* per path, debounce timers that fired
  skipped,        \* paths a fired timer found missing on disk
  overCap,        \* log views that were appended to while above MaxLogSize
  lastAnalyzed    \* file of the analysis that wrote the last context entry

\* the RuleEngine and what it reads: one engine, one configuration file name
VARIABLES
  cwd,            \* process.cwd(), as its depth below the filesystem root
  disk,           \* per directory of the chain root..cwd, the configuration file in it
  created,        \* the path given to the latest createInitialConfig, NoPath if none
  rules,          \* this.rules, in insertion order
  exceptions,     \* keys of this.exceptions
  loadedExc,      \* the exception entries processExceptions has been given
  lastLoad,       \* the latest loadRules call and its outcome
  lastApply,      \* the latest applyRules call and its outcome
  ops             \* loadRules calls made so far, and how many the scenario makes

engineVars == <<cwd, disk, created, rules, exceptions, loadedExc, lastLoad, lastApply, ops>>

\* the DriftDetector and the severity aggregations: they keep no state between calls
VARIABLES
  driftCall       \* the latest call of one of them: its arguments and its result

driftVars == <<driftCall>>

\* the PatternLearner
VARIABLES
  learner         \* its count of file types, and its latest call with the result

learnVars == <<learner>>
pureVars == <<engineVars, driftVars, learnVars>>

monitorState == <<cap, opts, isRunning, starting, hasDetector, hasRules, watchers, live,
          debounceTimers, timers, renameTimers, exists, stats, runs, emitted,
          nRuns, lastRun, contextLog, monitorLog, dailyLog, violationsLog, summaryLog,
          lastStart, startEnv,
          evCount, age, lowBursts, highBursts, fired, skipped, overCap, lastAnalyzed>>

vars == <<monitorState, pureVars>>

monitorVars == <<isRunning, starting, hasDetector, hasRules, watchers, live,
                 lastStart, startEnv>>
logVars == <<contextLog, monitorLog, dailyLog, violationsLog, summaryLog, overCap,
            lastAnalyzed>>
ghostVars == <<age, lowBursts, highBursts>>
runVars == <<runs, nRuns, lastRun>>

Min(S) == CHOOSE x \in S : \A y \in S : x <= y

\* ------------------------------------------------------- construction ----
\* the state of one analyzeFile invocation
NewRun(p) ==
  [path |-> p, pc |-> "start", cls |-> "none", isAI |-> FALSE,
   viol |-> <<>>, ins |-> 0, driftRan |-> FALSE, rulesRan |-> FALSE,
   thrown |-> "none", logged |-> FALSE, emits |-> 0]

InitStats ==
  [filesWatched |-> 0, changesDetected |-> 0, violationsFound |-> 0,
   aiCodeDetected |-> 0, startTime |-> 0]

InitMonitor ==
  /\ opts \in [ai : BOOLEAN, drift : {TRUE}, rules : {TRUE}]
  /\ isRunning = FALSE
  /\ starting = 0
  /\ hasDetector = FALSE
  /\ hasRules = FALSE
  /\ watchers = {}
  /\ live = [k \in Files \cup {Dir} |-> 0]
  /\ debounceTimers = [p \in Files |-> NoTimer]
  /\ timers = {}
  /\ renameTimers = {}
  /\ exists = [p \in Files |-> TRUE]
  /\ stats = InitStats
  /\ runs = <<>>
  /\ nRuns = 0
  /\ lastRun = NewRun("")
  /\ emitted = [started |-> 0, stopped |-> 0, analysis |-> 0]
  /\ contextLog = <<>>
  /\ monitorLog = 0
  /\ dailyLog = 0
  /\ violationsLog = 0
  /\ summaryLog = 0
  /\ lastStart = "none"
  /\ startEnv = "fine"
  /\ evCount = 0
  /\ age = [p \in Files |-> -1]
  /\ lowBursts = [p \in Files |-> 0]
  /\ highBursts = [p \in Files |-> 0]
  /\ fired = [p \in Files |-> 0]
  /\ skipped = {}
  /\ overCap = {}
  /\ lastAnalyzed = ""

\* ------------------------------------------------------------- logs ----
JsonLine(event, file) == [fmt |-> "json", event |-> event, file |-> file]

\* LogFormatter.formatContextEntry behind the separator line: plain text lines
FormatContextEntry(event, file) ==
  << [fmt |-> "text", event |-> "", file |-> ""],
     [fmt |-> "text", event |-> "", file |-> ""],
     [fmt |-> "text", event |-> event, file |-> ""],
     [fmt |-> "text", event |-> "", file |-> file],
     [fmt |-> "text", event |-> "", file |-> ""] >>

\* appendToLog: rename the file away when it is above the cap, then append
AppendToLog(log, lines) ==
  IF Len(log) > MaxLogSize THEN lines ELSE log \o lines

AppendToCount(n) == IF n > MaxLogSize THEN 1 ELSE n + 1

\* rotateLogs, for one file
RotateLines(log) == IF Len(log) > MaxLogSize THEN <<>> ELSE log

RotateCount(n) == IF n > MaxLogSize THEN 0 ELSE n

\* LogFormatter.writeToFile: a plain append
WriteToFile(log, lines) == log \o lines

\* JSON.parse of one line of the log, null when it is no JSON
ParseLine(line) == IF line.fmt = "json" THEN line ELSE [fmt |-> "null", event |-> "", file |-> ""]

LastLines(log, n) ==
  IF Len(log) <= n THEN log ELSE SubSeq(log, Len(log) - n + 1, Len(log))

IsFileAnalyzed(e) == e.fmt = "json" /\ e.event = "file_analyzed"

\* getRecentAnalysis: the last `limit` lines, parsed, the file_analyzed entries kept
GetRecentAnalysis(limit) ==
  LET recent == LastLines(contextLog, limit)
      parsed == [i \in 1..Len(recent) |-> ParseLine(recent[i])]
  IN SelectSeq(parsed, IsFileAnalyzed)

\* ------------------------------------------------ files and watching ----
\* shouldWatchFile: the extension of the path is in options.extensions
ShouldWatchFile(p) == p \in {"a.js", "b.ts"}

\* findWatchableFiles: a directory that cannot be listed is skipped with a warning
FindWatchableFiles(rootListable) ==
  IF rootListable THEN {p \in Files : exists[p] /\ ShouldWatchFile(p)} ELSE {}

Bump(f, keys) == [k \in DOMAIN f |-> IF k \in keys THEN f[k] + 1 ELSE f[k]]

Drop(f, keys) == [k \in DOMAIN f |-> IF k \in keys /\ f[k] > 0 THEN f[k] - 1 ELSE f[k]]

\* ------------------------------------------------------- debouncing ----
PendingFor(p) == {t \in timers : t.path = p}

\* handleFileChange: clear the timer the map holds for the path, set a new one
HandleFileChange(p) ==
  LET kept == {t \in timers : t.id # debounceTimers[p]}
      used == {t.id : t \in kept} \cup {debounceTimers[q] : q \in Files \ {p}}
      free == TimerIds \ used
  IN /\ free # {}
     /\ timers' = kept \cup {[id |-> Min(free), path |-> p, left |-> DebounceMs]}
     /\ debounceTimers' = [debounceTimers EXCEPT ![p] = Min(free)]
     /\ age' = [age EXCEPT ![p] = 0]
     /\ lowBursts' = [lowBursts EXCEPT ![p] =
                        IF age[p] < 0 \/ age[p] > DebounceMs THEN @ + 1 ELSE @]
     /\ highBursts' = [highBursts EXCEPT ![p] =
                        IF age[p] < 0 \/ age[p] >= DebounceMs THEN @ + 1 ELSE @]

\* the callback of a file watcher, eventType 'change'
ChangeEvent(p) ==
  /\ live[p] > 0
  /\ exists[p]
  /\ evCount < cap.events
  /\ evCount' = evCount + 1
  /\ HandleFileChange(p)
  /\ UNCHANGED <<pureVars, cap, opts, monitorVars, renameTimers, exists, stats, runVars, emitted,
                 logVars, fired, skipped>>

\* a file is created or removed; the directory watcher, when open, gets 'rename'
RenameEvent(p) ==
  /\ evCount < cap.events
  /\ evCount' = evCount + 1
  /\ exists' = [exists EXCEPT ![p] = ~@]
  /\ renameTimers' =
       IF live[Dir] > 0 /\ ShouldWatchFile(p)
       THEN renameTimers \cup {[path |-> p, left |-> RenameDelay]}
       ELSE renameTimers
  /\ UNCHANGED <<pureVars, cap, opts, monitorVars, debounceTimers, timers, stats, runVars, emitted,
                 logVars, ghostVars, fired, skipped>>

\* the 100 ms timeout of the rename callback
RenameFire(rt) ==
  /\ rt.left = 0
  /\ renameTimers' = renameTimers \ {rt}
  /\ HandleFileChange(rt.path)
  /\ UNCHANGED <<pureVars, cap, opts, monitorVars, exists, stats, runVars, emitted, logVars,
                 fired, skipped, evCount>>

\* 100 ms pass; a timeout that is due fires before the clock moves on
Tick ==
  /\ \A t \in timers : t.left > 0
  /\ \A rt \in renameTimers : rt.left > 0
  /\ timers' = {[t EXCEPT !.left = @ - 1] : t \in timers}
  /\ renameTimers' = {[rt EXCEPT !.left = @ - 1] : rt \in renameTimers}
  /\ age' = [p \in Files |->
               IF age[p] < 0 \/ age[p] > DebounceMs THEN age[p] ELSE age[p] + 1]
  /\ UNCHANGED <<pureVars, cap, opts, monitorVars, debounceTimers, exists, stats, runVars,
                 emitted, logVars, lowBursts, highBursts, fired, skipped, evCount>>

\* ------------------------------------------------------ the stages ----
\* AIDetector.performAIAnalysis: a classifier that throws or answers something
\* unparseable contributes no indicator
PerformAIAnalysis(cls, k) ==
  [threw |-> FALSE, indicators |-> IF cls = "ok" THEN k ELSE 0]

DetectAICodeMut(cls, k, pat, likely) ==
  [threw |-> cls # "ok", indicators |-> pat + (IF cls = "ok" THEN k ELSE 0),
   isLikelyAI |-> (pat + (IF cls = "ok" THEN k ELSE 0) > 0) /\ likely]

\* AIDetector.detectAICode: pattern indicators plus the classifier's; likely is
\* whether the confidence computed from the indicators reaches confidence.MEDIUM
DetectAICode(cls, k, pat, likely) ==
  LET ai == PerformAIAnalysis(cls, k)
  IN IF ai.threw
     THEN [threw |-> FALSE, indicators |-> 0, isLikelyAI |-> FALSE]
     ELSE [threw |-> FALSE, indicators |-> pat + ai.indicators,
           isLikelyAI |-> (pat + ai.indicators > 0) /\ likely]

Classifier == {"ok", "throws", "unparseable"}

Tags(n, tag) == [i \in 1..n |-> tag]

Put(seq, i, r) == IF i > Len(seq) THEN Append(seq, r) ELSE [seq EXCEPT ![i] = r]

Remove(seq, i) == [j \in 1..(Len(seq) - (IF i <= Len(seq) THEN 1 ELSE 0)) |->
                     IF j < i THEN seq[j] ELSE seq[j + 1]]

\* the next stage of analyzeFile that awaits I/O, from the stage `from` on
NextAwait(from) ==
  IF from = "ai" /\ opts.ai THEN "ai"
  ELSE IF from \in {"ai", "drift"} /\ opts.drift /\ hasDetector THEN "drift"
  ELSE "rules"

WithRulesMut(run, n) ==
  IF opts.rules /\ hasRules
  THEN [run EXCEPT !.viol = Tags(n, "rule") \o @, !.rulesRan = TRUE]
  ELSE run

\* analyzeFile, the rule stage: RuleEngine.applyRules catches what a rule throws
WithRules(run, n) ==
  IF opts.rules /\ hasRules
  THEN [run EXCEPT !.viol = @ \o Tags(n, "rule"), !.rulesRan = TRUE]
  ELSE run

ShouldEmitMut(run) == Len(run.viol) > 0

\* analyzeFile: the 'analysis' event is emitted for a result that has something
ShouldEmit(run) == Len(run.viol) > 0 \/ run.ins > 0

\* analyzeFile is suspended in the await of stage pc
Suspend(i, run, pc, st) ==
  /\ runs' = Put(runs, i, [run EXCEPT !.pc = pc])
  /\ stats' = st
  /\ UNCHANGED <<debounceTimers, lastRun, emitted, logVars>>

\* analyzeFile past the last await: the counters, the logs, the event; then the
\* timer callback deletes the path from debounceTimers
Complete(i, run, st) ==
  LET done == [run EXCEPT !.pc = "done", !.logged = TRUE,
                          !.emits = IF ShouldEmit(run) THEN 1 ELSE 0]
  IN /\ runs' = Remove(runs, i)
     /\ lastRun' = done
     /\ stats' = [st EXCEPT !.violationsFound = @ + Len(run.viol)]
     /\ monitorLog' = AppendToCount(monitorLog)
     /\ emitted' = [emitted EXCEPT !.analysis = @ + done.emits]
     /\ contextLog' = WriteToFile(contextLog, FormatContextEntry("file_analyzed", run.path))
     /\ dailyLog' = dailyLog + 1
     /\ violationsLog' = IF Len(run.viol) > 0 THEN violationsLog + 1 ELSE violationsLog
     /\ overCap' = overCap
                     \cup (IF Len(contextLog) > MaxLogSize THEN {"context"} ELSE {})
                     \cup (IF dailyLog > MaxLogSize THEN {"daily"} ELSE {})
                     \cup (IF Len(run.viol) > 0 /\ violationsLog > MaxLogSize
                           THEN {"violations"} ELSE {})
     /\ lastAnalyzed' = run.path
     /\ UNCHANGED summaryLog
     /\ debounceTimers' = [debounceTimers EXCEPT ![run.path] = NoTimer]

\* the catch of analyzeFile: a warning, nothing else; then the timer callback
\* deletes the path from debounceTimers
Fail(i, run, st, stage) ==
  /\ runs' = Remove(runs, i)
  /\ lastRun' = [run EXCEPT !.pc = "failed", !.thrown = stage]
  /\ stats' = st
  /\ debounceTimers' = [debounceTimers EXCEPT ![run.path] = NoTimer]
  /\ UNCHANGED <<emitted, logVars>>

\* analyzeFile from the stage `from` up to its next await or its end
Proceed(i, run, from, st) ==
  IF NextAwait(from) = "rules"
  THEN \E nRule \in 0..cap.viol : Complete(i, WithRules(run, nRule), st)
  ELSE Suspend(i, run, NextAwait(from), st)

\* a debounce timeout fires: analyzeFile up to its first await
TimerFire(t) ==
  /\ t.left = 0
  /\ timers' = timers \ {t}
  /\ fired' = [fired EXCEPT ![t.path] = @ + 1]
  /\ IF ~exists[t.path] \/ ~ShouldWatchFile(t.path)
     THEN /\ debounceTimers' = [debounceTimers EXCEPT ![t.path] = NoTimer]
          /\ skipped' = skipped \cup {t.path}
          /\ UNCHANGED <<stats, runs, nRuns, lastRun, emitted, logVars>>
     ELSE /\ nRuns < cap.runs
          /\ UNCHANGED skipped
          /\ nRuns' = nRuns + 1
          /\ Proceed(Len(runs) + 1, NewRun(t.path), "ai",
                     [stats EXCEPT !.changesDetected = @ + 1])
  /\ UNCHANGED <<pureVars, cap, opts, monitorVars, renameTimers, exists, ghostVars, evCount>>

\* detectAICode has answered
DetectDone(i) ==
  /\ runs[i].pc = "ai"
  /\ \E cls \in (IF cap.faults THEN Classifier ELSE {"ok"}), k \in 0..1, pat \in 0..1, likely \in BOOLEAN :
       LET det == DetectAICode(cls, k, pat, likely)
           run == [runs[i] EXCEPT !.cls = cls, !.isAI = det.isLikelyAI]
       IN IF det.threw
          THEN Fail(i, run, stats, "detect")
          ELSE IF det.isLikelyAI
          THEN Suspend(i, [run EXCEPT !.ins = @ + 1], "audit",
                       [stats EXCEPT !.aiCodeDetected = @ + 1])
          ELSE Proceed(i, run, "drift", stats)
  /\ UNCHANGED <<pureVars, cap, opts, monitorVars, timers, renameTimers, exists, ghostVars,
                 fired, skipped, evCount, nRuns>>

\* auditAICode has answered, or has thrown
AuditDone(i) ==
  /\ runs[i].pc = "audit"
  /\ \E threw \in (IF cap.faults THEN BOOLEAN ELSE {FALSE}) :
       IF threw
       THEN Fail(i, runs[i], stats, "audit")
       ELSE \E n \in 0..cap.viol :
            Proceed(i, [runs[i] EXCEPT !.viol = @ \o Tags(n, "ai")], "drift", stats)
  /\ UNCHANGED <<pureVars, cap, opts, monitorVars, timers, renameTimers, exists, ghostVars,
                 fired, skipped, evCount, nRuns>>

\* detectDrift has answered, or has thrown; lowScore is complianceScore < 80
DriftDone(i) ==
  /\ runs[i].pc = "drift"
  /\ \E threw \in (IF cap.faults THEN BOOLEAN ELSE {FALSE}) :
       IF threw
       THEN Fail(i, runs[i], stats, "drift")
       ELSE \E n \in 0..cap.viol, lowScore \in BOOLEAN :
            Proceed(i, [runs[i] EXCEPT !.viol = @ \o Tags(n, "drift"),
                                       !.ins = IF lowScore THEN @ + 1 ELSE @,
                                       !.driftRan = TRUE],
                    "rules", stats)
  /\ UNCHANGED <<pureVars, cap, opts, monitorVars, timers, renameTimers, exists, ghostVars,
                 fired, skipped, evCount, nRuns>>

\* ------------------------------------------------------- start, stop ----
StartRejectedMut(running) == FALSE

\* start: the guard on isRunning
StartRejected(running) == running

\* start() is called: rejected when running; else loadConfiguration reads
\* patterns.json when there is one and awaits ruleEngine.loadRules
StartCall ==
  IF StartRejected(isRunning)
  THEN /\ lastStart' = "noop"
       /\ UNCHANGED <<pureVars, cap, opts, isRunning, starting, hasDetector, hasRules, watchers,
                      live, startEnv, debounceTimers, timers, renameTimers, exists,
                      stats, runVars, emitted, logVars, ghostVars, fired, skipped, evCount>>
  ELSE /\ starting + emitted.started < cap.sessions
       /\ starting' = starting + 1
       /\ \E patterns \in BOOLEAN : hasDetector' = (hasDetector \/ patterns)
       /\ UNCHANGED <<pureVars, cap, opts, isRunning, hasRules, watchers, live, lastStart,
                      startEnv, debounceTimers, timers, renameTimers, exists, stats,
                      runVars, emitted, logVars, ghostVars, fired, skipped, evCount>>

\* what start() can find on disk: all fine, a log directory that cannot be
\* created, a watch directory that cannot be listed
StartEnvs == {"fine", "nologdir", "noroot"}

\* loadRules has answered: the rest of start(), setupLogging, setupFileWatchers
StartFinish ==
  /\ starting > 0
  /\ starting' = starting - 1
  /\ \E rulesOk \in BOOLEAN : hasRules' = (hasRules \/ rulesOk)
  /\ \E env \in (IF cap.envFaults THEN StartEnvs ELSE {"fine"}) :
       /\ startEnv' = env
       /\ IF env = "nologdir"
          THEN /\ lastStart' = "rejected"
               /\ UNCHANGED <<isRunning, watchers, live, stats, emitted, logVars>>
          ELSE LET files == FindWatchableFiles(env # "noroot")
                   dirs == IF files = {} THEN {} ELSE {Dir}
               IN /\ lastStart' = "ok"
                  /\ watchers' = watchers \cup files \cup dirs
                  /\ live' = Bump(live, files \cup dirs)
                  /\ stats' = [stats EXCEPT !.filesWatched = @ + Cardinality(files),
                                            !.startTime = emitted.started + 1]
                  /\ isRunning' = TRUE
                  /\ emitted' = [emitted EXCEPT !.started = @ + 1]
                  /\ monitorLog' = RotateCount(monitorLog)
                  /\ contextLog' = AppendToLog(RotateLines(contextLog),
                                               <<JsonLine("monitor_started", "")>>)
                  /\ lastAnalyzed' = ""
                  /\ UNCHANGED <<dailyLog, violationsLog, summaryLog, overCap>>
  /\ UNCHANGED <<pureVars, cap, opts, hasDetector, debounceTimers, timers, renameTimers, exists,
                 runVars, ghostVars, fired, skipped, evCount>>

\* stop(): the timers of the map, the watchers of the map, the summary, the event
Stop ==
  /\ isRunning
  /\ timers' = {t \in timers : t.id \notin {debounceTimers[p] : p \in Files}}
  /\ debounceTimers' = [p \in Files |-> NoTimer]
  /\ live' = Drop(live, watchers)
  /\ watchers' = {}
  /\ isRunning' = FALSE
  /\ summaryLog' = summaryLog + 1
  /\ contextLog' = AppendToLog(contextLog, <<JsonLine("monitor_stopped", "")>>)
  /\ lastAnalyzed' = ""
  /\ emitted' = [emitted EXCEPT !.stopped = @ + 1]
  /\ age' = [p \in Files |-> -1]
  /\ lowBursts' = [p \in Files |-> 0]
  /\ highBursts' = [p \in Files |-> 0]
  /\ fired' = [p \in Files |-> 0]
  /\ skipped' = {}
  /\ UNCHANGED <<pureVars, cap, opts, starting, hasDetector, hasRules, lastStart, startEnv,
                 renameTimers, exists, stats, runVars, monitorLog, dailyLog,
                 violationsLog, overCap, evCount>>

\* ------------------------------------------------------ rule engine ----
\* directories are the chain from the filesystem root (depth 0) down to cwd
MaxDepth == 2
\* exception entries of one configuration file
MaxExc == 2
\* tokens of a file content given to applyRules
MaxContent == 2
\* loadRules calls of one behaviour
EngLoads == 1
\* loadRules calls of the reload scenario: a start and a restart of the monitor
ReLoads == 2
\* exception entries of one configuration file of the reload scenario
ReExc == 1

Depths == 0..MaxDepth
NoPath == "none"
\* the configPath argument: manasx-rules.json or /manasx-rules.json
Paths == {"relative", "absolute"}

Reverse(seq) == [i \in 1..Len(seq) |-> seq[Len(seq) + 1 - i]]

SeqsUpTo(S, n) == UNION {[1..k -> S] : k \in 0..n}

\* the sequences of SeqsUpTo(S, n) that name no element twice
ListsUpTo(S, n) ==
  {q \in SeqsUpTo(S, n) : \A i, j \in 1..Len(q) : i # j => q[i] # q[j]}

\* one rule of a configuration file, under its category
RuleEntry(category, id, severity, enabled) ==
  [category |-> category, catEnabled |-> TRUE, id |-> id, severity |-> severity,
   enabled |-> enabled]

\* RuleEngine.getDefaultConfiguration
DefaultConfiguration ==
  [kind |-> "config",
   rules |-> <<RuleEntry("security", "no-eval", "critical", TRUE),
               RuleEntry("performance", "no-sync-fs", "high", TRUE)>>,
   exceptions |-> <<>>]

\* the configuration RuleEngine.createInitialConfig writes
InitialConfig ==
  [kind |-> "config",
   rules |-> <<RuleEntry("security", "no-eval", "critical", TRUE),
               RuleEntry("security", "no-dangerous-html", "high", TRUE),
               RuleEntry("security", "require-company-fetch", "medium", TRUE),
               RuleEntry("performance", "no-sync-fs", "high", TRUE),
               RuleEntry("architecture", "feature-folder-structure", "medium", TRUE),
               RuleEntry("naming", "camelcase-variables", "low", TRUE)>>,
   exceptions |-> <<>>]

NoFile == [kind |-> "nofile", rules |-> <<>>, exceptions |-> <<>>]
BadJson == [kind |-> "badjson", rules |-> <<>>, exceptions |-> <<>>]

\* exception entries of a configuration; "" is a key the entry does not have
ExcEntries ==
  {[file |-> "a.js", rule |-> ""],
   [file |-> "legacy/*", rule |-> "security/no-eval"],
   [file |-> "", rule |-> "security/no-eval"],
   [file |-> "legacy/old.js", rule |-> "security/no-eval"]}

\* rule lists of the configurations a project writes by hand
ProjectRules ==
  <<RuleEntry("security", "no-eval", "critical", TRUE),
    RuleEntry("performance", "no-sync-fs", "high", FALSE),
    RuleEntry("architecture", "feature-folder-structure", "", TRUE)>>

Configs ==
  {[kind |-> "config", rules |-> r, exceptions |-> e] :
     r \in {ProjectRules, Reverse(ProjectRules)}, e \in ListsUpTo(ExcEntries, MaxExc)}

\* path.dirname of a directory of the chain
Dirname(d) == IF d = 0 THEN 0 ELSE d - 1

\* the directory of the file fs.writeFile(path) writes and fs.readFile reads
Resolve(path) == IF path = "absolute" THEN 0 ELSE cwd

\* path.join(dir, fileName): fileName appended to dir, absolute or not
Join(dir, path) == dir

\* RuleEngine.findConfigFile: from cwd upward while the directory is not the root
RECURSIVE FindFrom(_, _)
FindFrom(cur, path) ==
  IF cur = Dirname(cur) THEN [found |-> FALSE, dir |-> 0]
  ELSE IF disk[Join(cur, path)].kind # "nofile" THEN [found |-> TRUE, dir |-> Join(cur, path)]
  ELSE FindFrom(Dirname(cur), path)

FindConfigFile(path) == FindFrom(cwd, path)

\* processRuleCategory: the id and the defaults of one rule
FullRuleId(e) == e.category \o "/" \o e.id

Rule(e) ==
  [id |-> FullRuleId(e), category |-> e.category,
   severity |-> IF e.severity = "" THEN "medium" ELSE e.severity,
   enabled |-> e.enabled]

\* Map.set: a known key keeps its place
MapSet(map, rule) ==
  IF \E i \in 1..Len(map) : map[i].id = rule.id
  THEN [i \in 1..Len(map) |-> IF map[i].id = rule.id THEN rule ELSE map[i]]
  ELSE Append(map, rule)

\* processConfiguration, the loop over processRuleCategory
RECURSIVE ProcessRules(_, _)
ProcessRules(map, entries) ==
  IF entries = <<>> THEN map
  ELSE ProcessRules(IF Head(entries).catEnabled THEN MapSet(map, Rule(Head(entries)))
                    ELSE map,
                    Tail(entries))

\* processExceptions: the key of one entry
ExceptionKey(e) ==
  (IF e.file = "" THEN "*" ELSE e.file) \o ":" \o (IF e.rule = "" THEN "*" ELSE e.rule)

ProcessExceptions(keys, excs) == keys \cup {ExceptionKey(excs[i]) : i \in 1..Len(excs)}

NoLoad == [path |-> NoPath, found |-> FALSE, outcome |-> "none", roundTrip |-> FALSE,
           fresh |-> FALSE]
NoApply == [file |-> "", segs |-> <<>>, content |-> <<>>, learned |-> FALSE,
            threw |-> FALSE, violations |-> <<>>, evaluated |-> <<>>, failed |-> <<>>]

\* the engine before any call, in the scenarios of the monitor
InitIdle ==
  /\ cwd = 0
  /\ disk = [d \in Depths |-> NoFile]
  /\ created = NoPath
  /\ rules = <<>>
  /\ exceptions = {}
  /\ loadedExc = {}
  /\ lastLoad = NoLoad
  /\ lastApply = NoApply
  /\ ops = [loads |-> 0, max |-> EngLoads]

InitEngine ==
  /\ cwd \in Depths
  /\ disk = [d \in Depths |-> NoFile]
  /\ created = NoPath
  /\ rules = <<>>
  /\ exceptions = {}
  /\ loadedExc = {}
  /\ lastLoad = NoLoad
  /\ lastApply = NoApply
  /\ ops = [loads |-> 0, max |-> EngLoads]

\* a project keeps a configuration file in a directory of the chain, written
\* before the engine first loads it
WriteConfig(d, cfg) ==
  /\ d <= cwd
  /\ ops.loads = 0
  /\ \A e \in Depths : disk[e] = NoFile
  /\ disk' = [disk EXCEPT ![d] = cfg]
  /\ UNCHANGED <<cwd, created, rules, exceptions, loadedExc, lastLoad, lastApply, ops>>
  /\ UNCHANGED <<driftVars, learnVars>>
  /\ UNCHANGED monitorState

\* createInitialConfig(path)
CreateInitialConfig(path) ==
  /\ \A e \in Depths : disk[e] = NoFile
  /\ disk' = [disk EXCEPT ![Resolve(path)] = InitialConfig]
  /\ created' = path
  /\ UNCHANGED <<cwd, rules, exceptions, loadedExc, lastLoad, lastApply, ops>>
  /\ UNCHANGED <<driftVars, learnVars>>
  /\ UNCHANGED monitorState

\* loadRules(path): the error of findConfigFile has no code; ENOENT is what
\* readFile throws when the file was removed after fs.access found it
LoadRules(path) ==
  /\ ops.loads < ops.max
  /\ ops' = [ops EXCEPT !.loads = @ + 1]
  /\ lastApply' = NoApply
  /\ LET at == FindConfigFile(path)
         file == disk[at.dir]
         call == [path |-> path, found |-> at.found, outcome |-> "threw",
                  roundTrip |-> (created = path /\ disk[Resolve(path)] = InitialConfig),
                  fresh |-> (rules = <<>>)]
     IN IF ~at.found
        THEN /\ lastLoad' = call
             /\ UNCHANGED <<disk, rules, exceptions, loadedExc>>
        ELSE \E removed \in BOOLEAN :
             IF removed
             THEN /\ lastLoad' = [call EXCEPT !.outcome = "defaults", !.roundTrip = FALSE]
                  /\ disk' = [disk EXCEPT ![at.dir] = NoFile]
                  /\ UNCHANGED <<rules, exceptions, loadedExc>>
             ELSE IF file.kind # "config"
             THEN /\ lastLoad' = call
                  /\ UNCHANGED <<disk, rules, exceptions, loadedExc>>
             ELSE /\ lastLoad' = [call EXCEPT !.outcome = "loaded"]
                  /\ rules' = ProcessRules(rules, file.rules)
                  /\ exceptions' = ProcessExceptions(exceptions, file.exceptions)
                  /\ loadedExc' = loadedExc \cup {file.exceptions[i] : i \in 1..Len(file.exceptions)}
                  /\ UNCHANGED disk
  /\ UNCHANGED <<cwd, created, monitorState, driftVars, learnVars>>

\* file paths relative to cwd, as their segments
RelPaths == {<<"a.js">>, <<"legacy", "old.js">>}

RECURSIVE PathString(_)
PathString(segs) ==
  IF Len(segs) = 1 THEN segs[1] ELSE segs[1] \o "/" \o PathString(Tail(segs))

\* a file content: its tokens, or a value that is not a string
Tokens == {"eval(", "statSync", "\n"}
Contents ==
  {[isString |-> TRUE, toks |-> t] : t \in SeqsUpTo(Tokens, MaxContent)}
    \cup {[isString |-> FALSE, toks |-> <<>>]}

\* String.includes and String.indexOf, positions counted from 1
Includes(content, tok) == \E i \in 1..Len(content.toks) : content.toks[i] = tok

IndexOf(content, tok) == Min({i \in 1..Len(content.toks) : content.toks[i] = tok})

GetLineNumberMut(content, index) ==
  1 + Cardinality({i \in 1..Len(content.toks) : content.toks[i] = "\n"})

\* getLineNumber: content.substring(0, index).split('\n').length
GetLineNumber(content, index) ==
  1 + Cardinality({i \in 1..(index - 1) : content.toks[i] = "\n"})

Violation(rule, line) == [ruleId |-> rule.id, severity |-> rule.severity, line |-> line]

\* the loops of executeRule over a list of patterns
PatternViolations(rule, content, patterns) ==
  LET hit == SelectSeq(patterns, LAMBDA pat : Includes(content, pat))
  IN [i \in 1..Len(hit) |-> Violation(rule, GetLineNumber(content, IndexOf(content, hit[i])))]

\* followsFeatureFolderStructure: relativePath.split('/').length >= 2
FollowsFeatureFolderStructure(segs) == Len(segs) >= 2

\* detectNamingStyle of the variables a content can declare
VarStyle(tok) == IF tok = "let myVar" THEN "camelCase" ELSE "snake_case"

\* executeRule: a content that is no string makes the rules that read it throw
ExecuteRule(rule, segs, content, learned) ==
  LET ok(v) == [threw |-> FALSE, viols |-> v]
      thrown == [threw |-> TRUE, viols |-> <<>>]
  IN CASE rule.id = "security/no-eval" ->
            IF ~content.isString THEN thrown
            ELSE IF Includes(content, "eval(")
            THEN ok(<<Violation(rule, GetLineNumber(content, IndexOf(content, "eval(")))>>)
            ELSE ok(<<>>)
       [] rule.id = "security/no-dangerous-html" ->
            IF ~content.isString THEN thrown
            ELSE ok(PatternViolations(rule, content, <<"innerHTML", "outerHTML">>))
       [] rule.id = "security/require-company-fetch" ->
            IF ~content.isString THEN thrown
            ELSE IF Includes(content, "fetch(") /\ ~Includes(content, "companyFetch")
            THEN ok(<<Violation(rule, GetLineNumber(content, IndexOf(content, "fetch(")))>>)
            ELSE ok(<<>>)
       [] rule.id = "performance/no-sync-fs" ->
            IF ~content.isString THEN thrown
            ELSE ok(PatternViolations(rule, content,
                                      <<"readFileSync", "writeFileSync", "statSync">>))
       [] rule.id = "architecture/feature-folder-structure" ->
            IF FollowsFeatureFolderStructure(segs) THEN ok(<<>>)
            ELSE ok(<<Violation(rule, 1)>>)
       [] rule.id = "naming/camelcase-variables" ->
            IF ~learned THEN ok(<<>>)
            ELSE IF ~content.isString THEN thrown
            ELSE LET decl == SelectSeq(content.toks,
                                       LAMBDA t : t \in {"let myVar", "let my_var"}
                                                  /\ VarStyle(t) # "camelCase")
                 IN ok([i \in 1..Len(decl) |->
                          Violation(rule, GetLineNumber(content, IndexOf(content, decl[i])))])
       [] OTHER -> ok(<<>>)

HasExceptionMut(file, ruleId) ==
  \E key \in {file \o ":" \o ruleId, "*:" \o ruleId, "*:*"} : key \in exceptions

\* hasException: the four keys
HasException(file, ruleId) ==
  \E key \in {file \o ":" \o ruleId, file \o ":*", "*:" \o ruleId, "*:*"} :
    key \in exceptions

\* a variant of the loop of applyRules without the try around executeRule
RECURSIVE ApplyFromMut(_, _, _, _, _)
ApplyFromMut(i, segs, content, learned, acc) ==
  IF i > Len(rules) \/ acc.threw THEN acc
  ELSE IF ~rules[i].enabled \/ HasException(PathString(segs), rules[i].id)
  THEN ApplyFromMut(i + 1, segs, content, learned, acc)
  ELSE LET r == ExecuteRule(rules[i], segs, content, learned)
       IN ApplyFromMut(i + 1, segs, content, learned,
            IF r.threw
            THEN [acc EXCEPT !.threw = TRUE, !.violations = <<>>,
                             !.evaluated = Append(@, rules[i].id),
                             !.failed = Append(@, rules[i].id)]
            ELSE [acc EXCEPT !.violations = @ \o r.viols,
                             !.evaluated = Append(@, rules[i].id)])

\* the loop of applyRules from rule i on: skip, or try executeRule
RECURSIVE ApplyFrom(_, _, _, _, _)
ApplyFrom(i, segs, content, learned, acc) ==
  IF i > Len(rules) THEN acc
  ELSE IF ~rules[i].enabled \/ HasException(PathString(segs), rules[i].id)
  THEN ApplyFrom(i + 1, segs, content, learned, acc)
  ELSE LET r == ExecuteRule(rules[i], segs, content, learned)
       IN ApplyFrom(i + 1, segs, content, learned,
            IF r.threw
            THEN [acc EXCEPT !.evaluated = Append(@, rules[i].id),
                             !.failed = Append(@, rules[i].id)]
            ELSE [acc EXCEPT !.violations = @ \o r.viols,
                             !.evaluated = Append(@, rules[i].id)])

\* applyRules(filePath, content, learnedPatterns)
ApplyRules(segs, content, learned) ==
  ApplyFrom(1, segs, content, learned,
            [NoApply EXCEPT !.file = PathString(segs), !.segs = segs,
                            !.content = content, !.learned = learned])

\* a call of applyRules once loadRules has given a configuration
ApplyRulesCall(segs, content, learned) ==
  /\ lastApply = NoApply
  /\ lastLoad.outcome \in {"loaded", "defaults"}
  /\ UNCHANGED ops
  /\ lastApply' = ApplyRules(segs, content, learned)
  /\ UNCHANGED <<cwd, disk, created, rules, exceptions, loadedExc, lastLoad, monitorState,
                  driftVars, learnVars>>

\* ------------------------------------------------------ drift detector ----
\* violations of one list given to an aggregation, after the leading criticals
MaxViol == 2
\* critical violations at the head of a list given to calculateComplianceScore
MaxCritical == 5
\* lines of a file given to detectDrift
MaxLines == 2
\* files of a directory given to detectDrift
MaxDirFiles == 3

\* DriftDetector.severityLevels
Severities == {"critical", "high", "medium", "low", "info"}

\* a severity that is none of severityLevels
UnknownSeverity == "warning"

AnySeverity == Severities \cup {UnknownSeverity}

DriftViolation(rule, severity, line) == [rule |-> rule, severity |-> severity, line |-> line]

\* violation lists: k critical violations, then any violations
ViolationLists ==
  {[i \in 1..k |-> DriftViolation("r", "critical", 1)] \o
     [i \in 1..Len(t) |-> DriftViolation("r", t[i], 1)] :
       k \in 0..MaxCritical, t \in SeqsUpTo(AnySeverity, MaxViol)}

\* severityWeights, doubled so that info's 0.5 is a whole number; a severity
\* that is no key weighs 0
SeverityWeights(severity) ==
  CASE severity = "critical" -> 20
    [] severity = "high" -> 10
    [] severity = "medium" -> 6
    [] severity = "low" -> 2
    [] severity = "info" -> 1
    [] OTHER -> 0

\* violations.reduce: the doubled total weight
RECURSIVE TotalWeight(_)
TotalWeight(violations) ==
  IF violations = <<>> THEN 0
  ELSE SeverityWeights(Head(violations).severity) + TotalWeight(Tail(violations))

MaxPenalty == 100

Least(a, b) == IF a <= b THEN a ELSE b
Greatest(a, b) == IF a >= b THEN a ELSE b

CalculateComplianceScoreMut(violations) == 100 - TotalWeight(violations)

\* calculateComplianceScore: totalWeight * 2 is TotalWeight
CalculateComplianceScore(violations) ==
  LET penalty == Least(TotalWeight(violations), MaxPenalty)
  IN Greatest(0, 100 - penalty)

\* ContinuousMonitor.groupViolationsBySeverity: a severity that names no group
\* goes to info
GroupViolationsBySeverity(violations) ==
  [s \in Severities |->
     SelectSeq(violations,
               LAMBDA v : v.severity = s \/ (s = "info" /\ v.severity \notin Severities))]

\* severityOrder of getHighestSeverity, 0 for a severity that is no key
SeverityOrder(severity) ==
  CASE severity = "critical" -> 4
    [] severity = "high" -> 3
    [] severity = "medium" -> 2
    [] severity = "low" -> 1
    [] OTHER -> 0

\* the loop of getHighestSeverity from [highest, highestName] on
RECURSIVE HighestFrom(_, _, _)
HighestFrom(violations, highest, highestName) ==
  IF violations = <<>> THEN highestName
  ELSE LET score == SeverityOrder(Head(violations).severity)
       IN IF score > highest
          THEN HighestFrom(Tail(violations), score, Head(violations).severity)
          ELSE HighestFrom(Tail(violations), highest, highestName)

GetHighestSeverity(violations) == HighestFrom(violations, 0, "info")

\* lines of a file; the empty file is one empty line
LineKinds == {"", "let my_var = 1", "// note", "/* note */", "/** doc */"}
FileContents == UNION {[1..n -> LineKinds] : n \in 1..MaxLines}
EmptyFile == <<"">>

\* files given to detectDrift: base name, and the folders its relative path names
SourceFiles ==
  {[base |-> "index", folders |-> {"src"}], [base |-> "my_file", folders |-> {}]}

\* patterns.recommendations: "" and <<>> are keys the profile does not have
Profiles ==
  [files : {"", "camelCase"}, variables : {"", "camelCase"},
   commonFolders : {<<>>, <<"src">>},
   commentStyle : {"", "single", "jsdoc"}, commentDensity : {"", "none", "high"}]

\* detectNamingStyle of the names above
DetectNamingStyle(name) ==
  CASE name = "my_file" -> "snake_case"
    [] name = "my_var" -> "snake_case"
    [] OTHER -> "unknown"

\* analyzeNamingDrift: the file name, then the declared variables
AnalyzeNamingDrift(profile, file, content) ==
  LET fileDrift ==
        IF profile.files # "" /\ DetectNamingStyle(file.base) # profile.files
                              /\ DetectNamingStyle(file.base) # "unknown"
        THEN <<DriftViolation("consistent_file_naming", "medium", 1)>> ELSE <<>>
      decl == SelectSeq([i \in 1..Len(content) |-> i],
                        LAMBDA i : content[i] = "let my_var = 1")
      varDrift ==
        IF profile.variables # "" /\ DetectNamingStyle("my_var") # profile.variables
        THEN [k \in 1..Len(decl) |->
                DriftViolation("consistent_variable_naming", "low", decl[k])]
        ELSE <<>>
  IN fileDrift \o varDrift

\* analyzeArchitectureDrift: expectedFolders.some(relativePath.includes)
AnalyzeArchitectureDrift(profile, file) ==
  LET expected == profile.commonFolders
      isInCommonFolder == \E i \in 1..Len(expected) : expected[i] \in file.folders
  IN IF ~isInCommonFolder /\ Len(expected) > 0
     THEN <<DriftViolation("consistent_folder_structure", "info", 1)>> ELSE <<>>

CountLines(content, kinds) == Cardinality({i \in 1..Len(content) : content[i] \in kinds})

\* analyzeComments: a jsdoc comment also matches the multi-line expression
AnalyzeComments(content) ==
  LET single == CountLines(content, {"// note"})
      multi == CountLines(content, {"/* note */", "/** doc */"})
      jsdoc == CountLines(content, {"/** doc */"})
      total == single + multi + jsdoc
      lines == Len(content)
  IN [dominantStyle |-> IF jsdoc >= single /\ jsdoc >= multi THEN "jsdoc"
                        ELSE IF multi >= single THEN "multi" ELSE "single",
      density |-> IF 5 * total > lines THEN "high"
                  ELSE IF 10 * total > lines THEN "medium"
                  ELSE IF 20 * total > lines THEN "low" ELSE "none"]

\* analyzeCommentDrift
AnalyzeCommentDrift(profile, content) ==
  IF profile.commentStyle = "" \/ profile.commentDensity = "" THEN <<>>
  ELSE LET commentAnalysis == AnalyzeComments(content)
           severityMap == [none |-> "high", low |-> "medium", medium |-> "low",
                           high |-> "info"]
       IN (IF commentAnalysis.dominantStyle # profile.commentStyle
           THEN <<DriftViolation("consistent_comment_style", "info", 1)>> ELSE <<>>)
          \o
          (IF commentAnalysis.density # profile.commentDensity
           THEN <<DriftViolation("consistent_comment_density",
                                 severityMap[profile.commentDensity], 1)>>
           ELSE <<>>)

\* analyzeDriftInFile: collect, score, then drop the info violations
AnalyzeDriftInFile(profile, file, content, includeInfo) ==
  LET collected == AnalyzeNamingDrift(profile, file, content)
                     \o AnalyzeArchitectureDrift(profile, file)
                     \o AnalyzeCommentDrift(profile, content)
  IN [complianceScore |-> CalculateComplianceScore(collected),
      violations |-> IF includeInfo THEN collected
                     ELSE SelectSeq(collected, LAMBDA v : v.severity # "info")]

NoViolation == DriftViolation("", "", 0)
NoProfile ==
  [files |-> "", variables |-> "", commonFolders |-> <<>>, commentStyle |-> "",
   commentDensity |-> ""]

NoDrift ==
  [op |-> "none", violations |-> <<>>, extra |-> NoViolation, score |-> 0, scoreMore |-> 0,
   groups |-> [s \in Severities |-> <<>>], highest |-> "",
   profile |-> NoProfile, base |-> "", content |-> <<>>, includeInfo |-> FALSE,
   returned |-> <<>>, fileScores |-> <<>>, filesAnalyzed |-> 0, overallScore |-> 0]

InitDrift == driftCall = NoDrift

\* each call below is the one call of a behaviour: the functions keep no state

\* calculateComplianceScore on a list, and on the list with one more violation
ScoreCall(violations, severity) ==
  /\ driftCall = NoDrift
  /\ driftCall' = [NoDrift EXCEPT
       !.op = "score", !.violations = violations,
       !.extra = DriftViolation("r", severity, 1),
       !.score = CalculateComplianceScore(violations),
       !.scoreMore = CalculateComplianceScore(Append(violations,
                                                     DriftViolation("r", severity, 1)))]
  /\ UNCHANGED <<monitorState, engineVars, learnVars>>

GroupCall(violations) ==
  /\ driftCall = NoDrift
  /\ driftCall' = [NoDrift EXCEPT
       !.op = "group", !.violations = violations,
       !.groups = GroupViolationsBySeverity(violations)]
  /\ UNCHANGED <<monitorState, engineVars, learnVars>>

HighestCall(violations) ==
  /\ driftCall = NoDrift
  /\ driftCall' = [NoDrift EXCEPT
       !.op = "highest", !.violations = violations,
       !.highest = GetHighestSeverity(violations)]
  /\ UNCHANGED <<monitorState, engineVars, learnVars>>

\* detectDrift(filePath, {includeInfo}) on a file
DetectDrift(profile, file, content, includeInfo) ==
  /\ driftCall = NoDrift
  /\ LET result == AnalyzeDriftInFile(profile, file, content, includeInfo)
     IN driftCall' = [NoDrift EXCEPT
          !.op = "drift", !.profile = profile, !.base = file.base,
          !.content = content, !.includeInfo = includeInfo,
          !.score = result.complianceScore, !.returned = result.violations]
  /\ UNCHANGED <<monitorState, engineVars, learnVars>>

\* files findFiles can list in a directory; one of them cannot be read
DirectoryFiles ==
  {[base |-> "index", folders |-> {"src"}, content |-> EmptyFile, readable |-> TRUE],
   [base |-> "my_file", folders |-> {}, content |-> <<"// note">>, readable |-> TRUE],
   [base |-> "index", folders |-> {}, content |-> <<"let my_var = 1">>, readable |-> TRUE],
   [base |-> "index", folders |-> {"src"}, content |-> EmptyFile, readable |-> FALSE]}

RECURSIVE SumScores(_)
SumScores(scores) == IF scores = <<>> THEN 0 ELSE Head(scores) + SumScores(Tail(scores))

CalculateOverallScoreMut(scores) ==
  IF Len(scores) = 0 THEN 100 ELSE SumScores(scores) \div Len(scores)

\* calculateOverallScore: Math.round of the mean, a half rounds up
CalculateOverallScore(scores) ==
  IF Len(scores) = 0 THEN 100
  ELSE (2 * SumScores(scores) + Len(scores)) \div (2 * Len(scores))

\* the loop of analyzeDriftInDirectory: a file whose analysis throws is skipped
RECURSIVE DirectoryScores(_, _, _)
DirectoryScores(profile, files, includeInfo) ==
  IF files = <<>> THEN <<>>
  ELSE LET f == Head(files)
           rest == DirectoryScores(profile, Tail(files), includeInfo)
       IN IF ~f.readable THEN rest
          ELSE <<AnalyzeDriftInFile(profile, f, f.content, includeInfo).complianceScore>>
                 \o rest

\* detectDrift(directory, {includeInfo}): analyzeDriftInDirectory
DetectDriftInDirectory(profile, files, includeInfo) ==
  /\ driftCall = NoDrift
  /\ LET scores == DirectoryScores(profile, files, includeInfo)
     IN driftCall' = [NoDrift EXCEPT
          !.op = "directory", !.profile = profile, !.includeInfo = includeInfo,
          !.fileScores = scores, !.filesAnalyzed = Len(scores),
          !.overallScore = CalculateOverallScore(scores)]
  /\ UNCHANGED <<monitorState, engineVars, learnVars>>

\* ------------------------------------------------------ pattern learner ----
\* files one learning pass analyzes
MaxLearnFiles == 60
\* directories of a tree given to findCodeFiles, code files of one directory,
\* and the largest maxFiles asked for
MaxDirs == 3
MaxPerDir == 2
MaxFilesAsked == 3
\* the largest count of one key of a count table
MaxCount == 2

\* extensions of the files a pass analyzes
Extensions == {"js", "ts"}

\* a Map of the learner: Object.values sees none of its entries
NewMap(keys) == [kind |-> "Map", entries |-> [k \in keys |-> 0]]

MapIncrement(map, key) == [map EXCEPT !.entries[key] = @ + 1]

RECURSIVE SumOver(_, _)
SumOver(f, keys) ==
  IF keys = {} THEN 0
  ELSE LET k == CHOOSE x \in keys : TRUE IN f[k] + SumOver(f, keys \ {k})

\* Object.values(o): the own enumerable properties, which a Map has not
ObjectValues(o) == IF o.kind = "Map" THEN <<>> ELSE o.values

\* calculateConfidence: the sum of Object.values(fileTypes)
CalculateConfidence(fileTypes) ==
  LET totalFiles == SumScores(ObjectValues(fileTypes))
  IN IF totalFiles < 10 THEN "low" ELSE IF totalFiles < 50 THEN "medium" ELSE "high"

\* a directory tree: directory 1 is the root, parent[d] < d, each directory
\* lists its code files and then its subdirectories
Trees ==
  UNION {[n : {n}, parent : {p \in [1..n -> 0..n] : \A d \in 1..n : p[d] < d /\ (d > 1 => p[d] >= 1)},
          files : [1..n -> 0..MaxPerDir],
          ignored : {g \in [1..n -> BOOLEAN] : ~g[1]}] : n \in 1..MaxDirs}

\* the subdirectories of d that ignorePatterns let through, in readdir order
Subdirectories(tree, d) ==
  SelectSeq([i \in 1..tree.n |-> i], LAMBDA c : tree.parent[c] = d /\ ~tree.ignored[c])

\* the loop of findCodeFiles: pop a directory, take all its code files, push
\* its subdirectories
RECURSIVE FindFromStack(_, _, _, _)
FindFromStack(tree, stack, files, maxFiles) ==
  IF ~(Len(stack) > 0 /\ Len(files) < maxFiles) THEN files
  ELSE LET currentDir == stack[Len(stack)]
           popped == SubSeq(stack, 1, Len(stack) - 1)
       IN FindFromStack(tree, popped \o Subdirectories(tree, currentDir),
                        files \o [k \in 1..tree.files[currentDir] |-> <<currentDir, k>>],
                        maxFiles)

FindCodeFiles(tree, maxFiles) == FindFromStack(tree, <<1>>, <<>>, maxFiles)

\* the count tables of the constructor, keys in insertion order
TableKeys ==
  {<<"camelCase", "snake_case", "PascalCase">>, <<"relative", "absolute">>,
   <<"explicit", "implicit">>, <<"named", "default", "mixed">>, <<"single", "multi", "jsdoc">>,
   <<"high", "medium", "low", "none">>}

\* Object.entries of a count table
CountTables ==
  UNION {{[i \in 1..Len(keys) |-> [key |-> keys[i], count |-> c[i]]] :
            c \in [1..Len(keys) -> 0..MaxCount]} : keys \in TableKeys}

RECURSIVE ReduceMaxMut(_, _)
ReduceMaxMut(max, entries) ==
  IF entries = <<>> THEN max
  ELSE ReduceMaxMut(IF Head(entries).count >= max.count THEN Head(entries) ELSE max,
                    Tail(entries))

\* entries.reduce((max, current) => current[1] > max[1] ? current : max)
RECURSIVE ReduceMax(_, _)
ReduceMax(max, entries) ==
  IF entries = <<>> THEN max
  ELSE ReduceMax(IF Head(entries).count > max.count THEN Head(entries) ELSE max,
                 Tail(entries))

\* getMostCommon; "" is null
GetMostCommon(entries) ==
  IF Len(entries) = 0 THEN "" ELSE ReduceMax(Head(entries), Tail(entries)).key

NoLearner ==
  [op |-> "none", fileTypes |-> NewMap(Extensions), confidence |-> "",
   tree |-> [n |-> 0], maxFiles |-> 0, found |-> <<>>, table |-> <<>>, common |-> ""]

InitLearner == learner = NoLearner

\* analyzeFile of a learning pass, up to analyzeArchitecturePatterns
LearnerAnalyzeFile(ext) ==
  /\ learner.op \in {"none", "learn"}
  /\ learner.confidence = ""
  /\ SumOver(learner.fileTypes.entries, Extensions) < MaxLearnFiles
  /\ learner' = [learner EXCEPT !.op = "learn",
                                !.fileTypes = MapIncrement(@, ext)]
  /\ UNCHANGED <<monitorState, engineVars, driftVars>>

\* consolidatePatterns at the end of the pass
ConsolidatePatterns ==
  /\ learner.op \in {"none", "learn"}
  /\ learner.confidence = ""
  /\ learner' = [learner EXCEPT !.op = "learn",
                                !.confidence = CalculateConfidence(learner.fileTypes)]
  /\ UNCHANGED <<monitorState, engineVars, driftVars>>

FindCodeFilesCall(tree, maxFiles) ==
  /\ learner = NoLearner
  /\ learner' = [NoLearner EXCEPT !.op = "find", !.tree = tree, !.maxFiles = maxFiles,
                                  !.found = FindCodeFiles(tree, maxFiles)]
  /\ UNCHANGED <<monitorState, engineVars, driftVars>>

GetMostCommonCall(table) ==
  /\ learner = NoLearner
  /\ learner' = [NoLearner EXCEPT !.op = "common", !.table = table,
                                  !.common = GetMostCommon(table)]
  /\ UNCHANGED <<monitorState, engineVars, driftVars>>

\* ------------------------------------------------------ specification ----
Next ==
  \/ StartCall
  \/ StartFinish
  \/ Stop
  \/ Tick
  \/ \E p \in Files : ChangeEvent(p)
  \/ \E p \in Files : RenameEvent(p)
  \/ \E rt \in renameTimers : RenameFire(rt)
  \/ \E t \in timers : TimerFire(t)
  \/ \E i \in 1..Len(runs) : DetectDone(i)
  \/ \E i \in 1..Len(runs) : AuditDone(i)
  \/ \E i \in 1..Len(runs) : DriftDone(i)

\* the analysis scenario is the default specification
Init ==
  /\ cap = [sessions |-> 1, events |-> AnEvents, runs |-> AnRuns, viol |-> AnViol,
            faults |-> TRUE, envFaults |-> FALSE]
  /\ InitMonitor
  /\ InitIdle
  /\ InitDrift
  /\ InitLearner

Spec == Init /\ [][Next]_vars

InitLifecycle ==
  /\ cap = [sessions |-> LcSessions, events |-> LcEvents, runs |-> LcRuns, viol |-> 0,
            faults |-> FALSE, envFaults |-> TRUE]
  /\ InitMonitor
  /\ InitIdle
  /\ InitDrift
  /\ InitLearner

SpecLifecycle == InitLifecycle /\ [][Next]_vars

InitDebounce ==
  /\ cap = [sessions |-> 1, events |-> DbEvents, runs |-> DbRuns, viol |-> 0,
            faults |-> FALSE, envFaults |-> FALSE]
  /\ InitMonitor
  /\ InitIdle
  /\ InitDrift
  /\ InitLearner

SpecDebounce == InitDebounce /\ [][Next]_vars

InitOverlap ==
  /\ cap = [sessions |-> 1, events |-> OvEvents, runs |-> OvRuns, viol |-> OvViol,
            faults |-> FALSE, envFaults |-> FALSE]
  /\ InitMonitor
  /\ opts.ai
  /\ InitIdle
  /\ InitDrift
  /\ InitLearner

\* overlapping analyses: the files are edited, none is created or removed
NextOverlap ==
  \/ StartCall
  \/ StartFinish
  \/ Stop
  \/ Tick
  \/ \E p \in Files : ChangeEvent(p)
  \/ \E t \in timers : TimerFire(t)
  \/ \E i \in 1..Len(runs) : DetectDone(i)
  \/ \E i \in 1..Len(runs) : AuditDone(i)
  \/ \E i \in 1..Len(runs) : DriftDone(i)

SpecOverlap == InitOverlap /\ [][NextOverlap]_vars


\* the monitor at rest, for the behaviours of its collaborators alone
InitRest ==
  /\ cap = [sessions |-> 0, events |-> 0, runs |-> 0, viol |-> 0,
            faults |-> FALSE, envFaults |-> FALSE]
  /\ InitMonitor
  /\ opts.ai

\* the rule engine scenario: configuration files, loadRules, applyRules
NextRules ==
  \/ \E d \in Depths, cfg \in Configs \cup {BadJson} : WriteConfig(d, cfg)
  \/ \E path \in Paths : CreateInitialConfig(path)
  \/ \E path \in Paths : LoadRules(path)
  \/ \E segs \in RelPaths, content \in Contents, learned \in BOOLEAN :
       ApplyRulesCall(segs, content, learned)

InitRules == InitRest /\ InitEngine /\ InitDrift /\ InitLearner

SpecRules == InitRules /\ [][NextRules]_vars

\* ------------------------------------------------------------ reload ----
\* the security category switched off: its rules are not processed
SecurityOff ==
  <<[RuleEntry("security", "no-eval", "critical", TRUE) EXCEPT !.catEnabled = FALSE],
    RuleEntry("performance", "no-sync-fs", "high", FALSE),
    RuleEntry("architecture", "feature-folder-structure", "", TRUE)>>

\* the configurations of a project that edits its file between two starts:
\* all rules, the security rule removed, the security category disabled
ReloadConfigs ==
  {[kind |-> "config", rules |-> r, exceptions |-> e] :
     r \in {ProjectRules, Tail(ProjectRules), SecurityOff},
     e \in ListsUpTo(ExcEntries, ReExc)}

\* the project edits the configuration file the engine has loaded
RewriteConfig(d, cfg) ==
  /\ ops.loads >= 1
  /\ ops.loads < ops.max
  /\ lastLoad.outcome = "loaded"
  /\ disk[d].kind = "config"
  /\ disk[d] # cfg
  /\ disk' = [disk EXCEPT ![d] = cfg]
  /\ UNCHANGED <<cwd, created, rules, exceptions, loadedExc, lastLoad, lastApply, ops>>
  /\ UNCHANGED <<driftVars, learnVars>>
  /\ UNCHANGED monitorState

\* one engine, constructed once, whose loadRules runs at every start of the monitor
InitReload ==
  /\ InitRest
  /\ cwd \in Depths
  /\ disk = [d \in Depths |-> NoFile]
  /\ created = NoPath
  /\ rules = <<>>
  /\ exceptions = {}
  /\ loadedExc = {}
  /\ lastLoad = NoLoad
  /\ lastApply = NoApply
  /\ ops = [loads |-> 0, max |-> ReLoads]
  /\ InitDrift
  /\ InitLearner

NextReload ==
  \/ \E d \in Depths, cfg \in ReloadConfigs : WriteConfig(d, cfg)
  \/ \E d \in Depths, cfg \in ReloadConfigs : RewriteConfig(d, cfg)
  \/ \E path \in Paths : LoadRules(path)
  \/ \E segs \in RelPaths, content \in Contents, learned \in BOOLEAN :
       ApplyRulesCall(segs, content, learned)

SpecReload == InitReload /\ [][NextReload]_vars

\* the drift scenario: detectDrift on one file, and the aggregations on lists
NextDrift ==
  \/ /\ driftCall = NoDrift
     /\ \E violations \in ViolationLists, severity \in AnySeverity :
          ScoreCall(violations, severity)
  \/ /\ driftCall = NoDrift
     /\ \E violations \in ViolationLists : GroupCall(violations)
  \/ /\ driftCall = NoDrift
     /\ \E violations \in ViolationLists : HighestCall(violations)
  \/ /\ driftCall = NoDrift
     /\ \E profile \in Profiles, file \in SourceFiles, content \in FileContents,
           includeInfo \in BOOLEAN :
          DetectDrift(profile, file, content, includeInfo)
  \/ /\ driftCall = NoDrift
     /\ \E profile \in Profiles, files \in SeqsUpTo(DirectoryFiles, MaxDirFiles),
           includeInfo \in BOOLEAN :
          DetectDriftInDirectory(profile, files, includeInfo)

InitDetector == InitRest /\ InitIdle /\ InitDrift /\ InitLearner

SpecDrift == InitDetector /\ [][NextDrift]_vars

\* the learner scenario: one learning pass, and the helpers on their own
NextLearner ==
  \/ \E ext \in Extensions : LearnerAnalyzeFile(ext)
  \/ ConsolidatePatterns
  \/ /\ learner = NoLearner
     /\ \E tree \in Trees, maxFiles \in 0..MaxFilesAsked : FindCodeFilesCall(tree, maxFiles)
  \/ /\ learner = NoLearner
     /\ \E table \in CountTables : GetMostCommonCall(table)

InitPass == InitRest /\ InitIdle /\ InitDrift /\ InitLearner

SpecLearner == InitPass /\ [][NextLearner]_vars


\* ------------------------------------------------------------ claims ----
\* a step in which an analyzeFile invocation ends, completed or caught
RunEnds == nRuns' - Len(runs') = nRuns - Len(runs) + 1

\* C1: while the monitor runs, for a file that was on disk whenever its timer
\* fired, the handleFileChange calls that come less than DebounceMs after the
\* previous one lead to one analyzeFile run together with it, and calls spaced
\* more than DebounceMs apart lead to one run each: the runs of a path are as
\* many as its bursts of calls.
C1_DebounceCollapsing ==
  isRunning =>
    \A p \in Files :
      p \notin skipped =>
        /\ fired[p] <= highBursts[p]
        /\ (PendingFor(p) = {} => fired[p] >= lowBursts[p])

\* C2: once stop() has returned, no debounce timer fires and no analysis is
\* started until the next start().
C2_NoAnalysisAfterStop ==
  [][(~isRunning /\ starting = 0) => (fired' = fired /\ nRuns' = nRuns)]_vars

\* C3: when a stage of analyzeFile throws, the other enabled stages still run
\* and the result is counted and written to the logs.
C3_StageIsolation ==
  lastRun.thrown # "none" =>
    /\ lastRun.logged
    /\ (opts.rules /\ hasRules) => lastRun.rulesRan
    /\ (lastRun.thrown # "drift" /\ opts.drift /\ hasDetector) => lastRun.driftRan

\* C4: a start() call on a running monitor begins no startup and changes
\* nothing: watchers, stats, events and the context log stay as they were.
C4_StartWhileRunningNoop ==
  [][isRunning =>
       /\ starting' <= starting
       /\ (lastStart' = "noop" /\ lastStart # "noop") =>
            UNCHANGED <<isRunning, starting, watchers, live, stats, emitted,
                        contextLog, monitorLog>>]_vars

C4_Witness == isRunning /\ lastStart = "noop" /\ emitted.started = 1

\* C5: a start() that finds the log directory impossible to create or the
\* watch directory impossible to list rejects, and the monitor does not enter
\* the running state nor emits 'started'.
C5_StartupErrorsFatal ==
  [][(starting' < starting /\ startEnv' # "fine") =>
       /\ lastStart' = "rejected"
       /\ isRunning' = isRunning
       /\ emitted' = emitted]_vars

\* C6: while the record of the last completed analysis is the newest of the
\* context log, getRecentAnalysis(RecentLimit) returns a file_analyzed entry
\* of that file.
C6_RecentAnalysisReadBack ==
  lastAnalyzed # "" =>
    \E i \in 1..Len(GetRecentAnalysis(RecentLimit)) :
      GetRecentAnalysis(RecentLimit)[i].file = lastAnalyzed

\* a step in which an analyzeFile invocation runs to its end
RunCompletes == RunEnds /\ lastRun'.pc = "done"

\* C7 as stated: every completed analysis emits one 'analysis' event and
\* appends one context entry and one daily line, results with no violations
\* and no insights included.
C7_AlwaysEmits ==
  [][RunCompletes =>
       /\ emitted'.analysis = emitted.analysis + 1
       /\ dailyLog' = dailyLog + 1
       /\ contextLog' = contextLog \o FormatContextEntry("file_analyzed", lastRun'.path)]_vars

\* C7 amended: a completed analysis emits one 'analysis' event when its result
\* has a violation or an insight and none otherwise; in both cases it appends
\* one context entry and one daily line.
C7_EmitsWhenNonEmpty ==
  [][RunCompletes =>
       /\ emitted'.analysis = emitted.analysis
            + (IF Len(lastRun'.viol) > 0 \/ lastRun'.ins > 0 THEN 1 ELSE 0)
       /\ dailyLog' = dailyLog + 1
       /\ contextLog' = contextLog \o FormatContextEntry("file_analyzed", lastRun'.path)]_vars

C7_Witness ==
  /\ lastRun.pc = "done" /\ lastRun.viol = <<>> /\ lastRun.ins = 0
  /\ nRuns = 1 /\ emitted.analysis = 0 /\ dailyLog = 1

\* C8: when the monitor is started again, filesWatched is the number of files
\* of the new session and the other counters are zero.
C8_StatsResetOnRestart ==
  [][(~isRunning /\ isRunning') =>
       /\ stats'.filesWatched = Cardinality(watchers' \cap Files)
       /\ stats'.changesDetected = 0
       /\ stats'.violationsFound = 0
       /\ stats'.aiCodeDetected = 0]_vars

\* C9: no record of an analysis is appended to a log view whose size is
\* already over maxLogSize.
C9_RotatedBeforeAppend == overCap = {}

C11_FallbackToDefaults ==
  (/\ lastLoad.outcome # "none"
   /\ ~lastLoad.found
   /\ \A d \in Depths : disk[d] = NoFile)
    => lastLoad.outcome = "defaults"

\* the file and rule an exception entry names, "*" for a key it does not have
ExcFile(e) == IF e.file = "" THEN "*" ELSE e.file
ExcRule(e) == IF e.rule = "" THEN "*" ELSE e.rule

\* entry e is one of (f, r), (f, *), (*, r), (*, *)
ExceptionApplies(e, f, r) == ExcFile(e) \in {f, "*"} /\ ExcRule(e) \in {r, "*"}

Evaluated(id) == \E k \in 1..Len(lastApply.evaluated) : lastApply.evaluated[k] = id

\* C12: applyRules evaluates rule r on file f if and only if r is enabled and
\* none of (f, r), (f, *), (*, r), (*, *) is a loaded exception; an exception
\* {file: f, rule: '*'} yields no violation for f, whatever the order of the
\* rules and of the exceptions in the configuration.
C12_ExceptionMatching ==
  lastApply.file # "" =>
    /\ \A i \in 1..Len(rules) :
         Evaluated(rules[i].id) <=>
           /\ rules[i].enabled
           /\ ~\E e \in loadedExc : ExceptionApplies(e, lastApply.file, rules[i].id)
    /\ (\E e \in loadedExc : ExcFile(e) = lastApply.file /\ ExcRule(e) = "*")
         => lastApply.violations = <<>>

\* a.js with eval( on it, an enabled no-eval rule and the exception {file: a.js}
C12_Witness ==
  /\ lastApply.file = "a.js"
  /\ lastApply.content.isString /\ Includes(lastApply.content, "eval(")
  /\ \E i \in 1..Len(rules) : rules[i].id = "security/no-eval" /\ rules[i].enabled
  /\ \E i \in 1..Len(rules) : ~rules[i].enabled
  /\ loadedExc = {[file |-> "a.js", rule |-> ""]}
  /\ lastApply.violations = <<>>
  /\ lastApply.evaluated = <<>>

\* C13: with the exceptions [{file: "legacy/*", rule: "security/no-eval"}],
\* applyRules on legacy/old.js whose content contains eval( returns zero
\* violations.
C13_LegacyGlobException ==
  (/\ lastApply.file = "legacy/old.js"
   /\ lastApply.content.isString /\ Includes(lastApply.content, "eval(")
   /\ loadedExc = {[file |-> "legacy/*", rule |-> "security/no-eval"]})
    => lastApply.violations = <<>>

\* the line of the first eval( of a content: one more than the line breaks
\* that no eval( precedes
FirstEvalLine(content) ==
  1 + Cardinality({i \in 1..Len(content.toks) :
                     /\ content.toks[i] = "\n"
                     /\ \A j \in 1..i : content.toks[j] # "eval("})

\* C14: for every content containing eval( , with rule security/no-eval loaded
\* and enabled and no matching exception, applyRules returns at least one
\* violation with ruleId "security/no-eval" and the rule's configured severity
\* (critical in the initial configuration), at the line of the first occurrence.
C14_EvalReported ==
  \A i \in 1..Len(rules) :
    (/\ lastApply.file # ""
     /\ lastApply.content.isString /\ Includes(lastApply.content, "eval(")
     /\ rules[i].id = "security/no-eval" /\ rules[i].enabled
     /\ ~\E e \in loadedExc : ExceptionApplies(e, lastApply.file, rules[i].id))
      => \E k \in 1..Len(lastApply.violations) :
           /\ lastApply.violations[k].ruleId = "security/no-eval"
           /\ lastApply.violations[k].severity = rules[i].severity
           /\ lastApply.violations[k].line = FirstEvalLine(lastApply.content)
           /\ (lastLoad.roundTrip /\ lastLoad.fresh)
                => lastApply.violations[k].severity = "critical"

\* eval( on the second line of a file, under the initial configuration
C14_Witness ==
  /\ lastLoad.roundTrip /\ lastLoad.outcome = "loaded"
  /\ lastApply.file = "legacy/old.js"
  /\ lastApply.content = [isString |-> TRUE, toks |-> <<"\n", "eval(">>]
  /\ \E k \in 1..Len(lastApply.violations) :
       lastApply.violations[k] =
         [ruleId |-> "security/no-eval", severity |-> "critical", line |-> 2]

\* C15: after createInitialConfig(path) has written the default configuration,
\* loadRules(path) on a new engine succeeds and registers as many rules as the
\* file holds.
C15_ConfigRoundTrip ==
  (lastLoad.roundTrip /\ lastLoad.fresh)
    => /\ lastLoad.outcome = "loaded"
       /\ Len(rules) = Len(InitialConfig.rules)

Failed(id) == \E k \in 1..Len(lastApply.failed) : lastApply.failed[k] = id

\* C16: an exception thrown inside one rule's evaluator during applyRules is
\* caught: applyRules does not throw, and every other enabled, non-excepted
\* rule is still evaluated on the same file and its violations are returned.
C16_EvaluatorFailureCaught ==
  lastApply.file # "" =>
    /\ ~lastApply.threw
    /\ \A i \in 1..Len(rules) :
         (/\ rules[i].enabled
          /\ ~\E e \in loadedExc : ExceptionApplies(e, lastApply.file, rules[i].id))
           => /\ Evaluated(rules[i].id)
              /\ ~Failed(rules[i].id) =>
                   LET r == ExecuteRule(rules[i], lastApply.segs, lastApply.content,
                                        lastApply.learned)
                   IN \A k \in 1..Len(r.viols) :
                        \E n \in 1..Len(lastApply.violations) :
                          lastApply.violations[n] = r.viols[k]

\* the no-eval evaluator throws on a content that is no string, and the
\* rule after it still reports a.js
C16_Witness ==
  /\ lastApply.file = "a.js"
  /\ lastApply.failed = <<"security/no-eval">>
  /\ lastApply.evaluated = <<"security/no-eval", "architecture/feature-folder-structure">>
  /\ lastApply.violations =
       <<[ruleId |-> "architecture/feature-folder-structure", severity |-> "medium",
          line |-> 1]>>

CountSeverity(violations, severity) ==
  Cardinality({k \in 1..Len(violations) : violations[k].severity = severity})

\* 2 * sum of weights with critical=10, high=5, medium=3, low=1, info=0.5
TwiceClaimedWeight(violations) ==
  20 * CountSeverity(violations, "critical") + 10 * CountSeverity(violations, "high")
    + 6 * CountSeverity(violations, "medium") + 2 * CountSeverity(violations, "low")
    + CountSeverity(violations, "info")

\* C17: calculateComplianceScore is in [0, 100] for every list of violations,
\* equals max(0, 100 - min(2 * sum of weights, 100)) with weights critical=10,
\* high=5, medium=3, low=1, info=0.5, and adding a violation to a list never
\* increases it.
C17_ScoreBoundedMonotone ==
  driftCall.op = "score" =>
    /\ driftCall.score \in 0..100
    /\ driftCall.scoreMore \in 0..100
    /\ driftCall.scoreMore <= driftCall.score
    /\ (\A k \in 1..Len(driftCall.violations) :
          driftCall.violations[k].severity \in Severities)
         => driftCall.score =
              Greatest(0, 100 - Least(TwiceClaimedWeight(driftCall.violations), 100))

\* a list with an info violation whose weight is past the cap
C17_Witness ==
  /\ driftCall.op = "score"
  /\ CountSeverity(driftCall.violations, "critical") = MaxCritical
  /\ CountSeverity(driftCall.violations, "info") = 1
  /\ TwiceClaimedWeight(driftCall.violations) > 100
  /\ driftCall.score = 0

\* C18: with includeInfo=false the info violations are removed before the
\* score is computed: the complianceScore detectDrift returns for a file equals
\* calculateComplianceScore of the violations it returns for that file.
C18_ScoreOfReturnedViolations ==
  (driftCall.op = "drift" /\ ~driftCall.includeInfo)
    => driftCall.score = CalculateComplianceScore(driftCall.returned)

\* C19: a violation whose severity is not a recognised level is treated as
\* info in every aggregation: groupViolationsBySeverity puts it in the info
\* group, getHighestSeverity ranks it as info, and calculateComplianceScore
\* gives it the weight of an info violation.
C19_UnknownSeverityAsInfo ==
  LET vs == driftCall.violations
      asInfo == [k \in 1..Len(vs) |->
                   IF vs[k].severity \in Severities THEN vs[k]
                   ELSE [vs[k] EXCEPT !.severity = "info"]]
      unknown == {k \in 1..Len(vs) : vs[k].severity \notin Severities}
  IN /\ driftCall.op = "group" =>
          /\ Len(driftCall.groups["info"]) = CountSeverity(asInfo, "info")
          /\ \A s \in Severities \ {"info"} :
               Len(driftCall.groups[s]) = CountSeverity(vs, s)
     /\ driftCall.op = "highest" =>
          /\ driftCall.highest \in Severities
          /\ \A k \in 1..Len(asInfo) :
               SeverityOrder(asInfo[k].severity) <= SeverityOrder(driftCall.highest)
     /\ driftCall.op = "score" =>
          driftCall.score = Greatest(0, 100 - Least(TwiceClaimedWeight(asInfo), 100))

\* C20: detectDrift on an empty file returns zero violations and
\* complianceScore = 100, for every pattern profile given to the detector.
C20_EmptyFileClean ==
  (driftCall.op = "drift" /\ driftCall.content = EmptyFile)
    => /\ driftCall.returned = <<>>
       /\ driftCall.score = 100

\* how many comments a density level stands for
DensityRank(density) ==
  CASE density = "none" -> 0
    [] density = "low" -> 1
    [] density = "medium" -> 2
    [] density = "high" -> 3

\* the severity of the comment_density violation of a list, "" if it has none
DensitySeverity(violations) ==
  LET hit == SelectSeq(violations, LAMBDA v : v.rule = "consistent_comment_density")
  IN IF hit = <<>> THEN "" ELSE hit[1].severity

\* C21: a file with too few comments for a project whose learned density is
\* high gets a comment_density violation of strictly higher severity than a
\* file with more comments than a project of density none or low expects.
C21_MissingCommentsWeighHigher ==
  (/\ driftCall.op = "drift" /\ driftCall.includeInfo
   /\ driftCall.profile.commentStyle # ""
   /\ driftCall.profile.commentDensity = "high"
   /\ DensityRank(AnalyzeComments(driftCall.content).density) < DensityRank("high"))
    => \A expected \in {"none", "low"}, content \in FileContents :
         DensityRank(AnalyzeComments(content).density) > DensityRank(expected)
           => LET excess == AnalyzeCommentDrift(
                              [driftCall.profile EXCEPT !.commentDensity = expected],
                              content)
              IN SeverityOrder(DensitySeverity(driftCall.returned))
                   > SeverityOrder(DensitySeverity(excess))

\* C22: summary.overallScore of a directory result is the arithmetic mean of
\* the complianceScore of the files analyzed, rounded to the nearest integer,
\* and 100 when no file was analyzed.
C22_OverallScoreIsRoundedMean ==
  driftCall.op = "directory" =>
    LET n == driftCall.filesAnalyzed
        twiceError == 2 * n * driftCall.overallScore - 2 * SumScores(driftCall.fileScores)
    IN /\ n = Len(driftCall.fileScores)
       /\ n = 0 => driftCall.overallScore = 100
       /\ n > 0 => (twiceError >= -n /\ twiceError <= n)

\* three files analyzed whose mean is rounded up
C22_Witness ==
  /\ driftCall.op = "directory"
  /\ driftCall.filesAnalyzed = 3
  /\ SumScores(driftCall.fileScores) % 3 = 2
  /\ 3 * driftCall.overallScore = SumScores(driftCall.fileScores) + 1

\* C23: the confidence of a learned profile depends on the number of files
\* analyzed only: low under 10 files, medium from 10 to 49, high from 50 on.
C23_ConfidenceByFileCount ==
  learner.confidence # "" =>
    LET analyzed == SumOver(learner.fileTypes.entries, Extensions)
    IN learner.confidence =
         IF analyzed < 10 THEN "low" ELSE IF analyzed < 50 THEN "medium" ELSE "high"

\* C24: for every directory tree and every maxFiles, the list findCodeFiles
\* returns has at most maxFiles entries.
C24_AtMostMaxFiles ==
  learner.op = "find" => Len(learner.found) <= learner.maxFiles

\* C25: the recommendation drawn from a count table is a key with the maximal
\* count, and among the keys with that count the first in iteration order.
C25_FirstMostCommon ==
  learner.op = "common" =>
    \E i \in 1..Len(learner.table) :
      /\ learner.table[i].key = learner.common
      /\ \A j \in 1..Len(learner.table) : learner.table[j].count <= learner.table[i].count
      /\ \A j \in 1..(i - 1) : learner.table[j].count < learner.table[i].count

\* the density table with the same top count for medium and none
C25_Witness ==
  /\ learner.op = "common"
  /\ Len(learner.table) = 4
  /\ learner.table[1].count < learner.table[2].count
  /\ learner.table[2].count = learner.table[4].count
  /\ learner.table[3].count < learner.table[2].count
  /\ learner.common = "medium"

\* ------------------------------------------------ claims C26 to C30 ----
\* the stage that reported a violation, in the order analyzeFile runs them
StageRank(tag) == IF tag = "ai" THEN 1 ELSE IF tag = "drift" THEN 2 ELSE 3

\* a step in which analyzeFile is entered and passes its guard
RunBegins == nRuns' = nRuns + 1

StopRuns == isRunning /\ ~isRunning'

\* C27: stop() on a running monitor cancels every pending debounce timer,
\* closes every watcher, leaves the running state, writes the summary report,
\* appends the monitor_stopped record and emits 'stopped' once; afterwards the
\* watcher map and the timer map are empty, and while the monitor is stopped
\* no further summary is written and no further 'stopped' is emitted.
C27_StopSequence ==
  [][/\ StopRuns =>
          /\ timers' = {}
          /\ \A k \in DOMAIN live : live'[k] = 0
          /\ watchers' = {}
          /\ \A p \in Files : debounceTimers'[p] = NoTimer
          /\ summaryLog' = summaryLog + 1
          /\ contextLog' = AppendToLog(contextLog, <<JsonLine("monitor_stopped", "")>>)
          /\ emitted'.stopped = emitted.stopped + 1
     /\ ~isRunning =>
          /\ emitted'.stopped = emitted.stopped
          /\ summaryLog' = summaryLog]_vars

\* C28: for every path at most one debounce timer is pending, and a pending
\* timer is the one debounceTimers holds under that path, also when a change
\* event arrives while an analysis of the path is awaiting I/O.
C28_TimerMapInvariant ==
  \A p \in Files :
    /\ Cardinality(PendingFor(p)) <= 1
    /\ \A t \in PendingFor(p) : debounceTimers[p] = t.id

\* C29: when start() is called again while an earlier call is still loading
\* the configuration, the watchers are attached once: after the calls have
\* returned, and before any stop(), no path has more than one live watcher,
\* filesWatched is the number of watched files and 'started' was emitted once.
C29_SingleAttachOnDoubleStart ==
  (isRunning /\ starting = 0 /\ emitted.stopped = 0) =>
    /\ \A k \in DOMAIN live : live[k] <= 1
    /\ stats.filesWatched = Cardinality(watchers \cap Files)
    /\ emitted.started = 1

\* the rules and the exception keys an engine that had loaded nothing gets
\* from a configuration
RulesOf(cfg) ==
  LET map == ProcessRules(<<>>, cfg.rules) IN {map[i] : i \in 1..Len(map)}

ExceptionsOf(cfg) == ProcessExceptions({}, cfg.exceptions)

\* the configuration file loadRules read in its latest call
LoadedConfig == disk[FindConfigFile(lastLoad.path).dir]

\* C30: after loadRules has loaded configuration B on an engine that had
\* loaded configuration A, the rules and the exceptions of the engine are
\* exactly those of B, and applyRules evaluates rules of B only.
C30_ReloadReplaces ==
  (ops.loads = ReLoads /\ lastLoad.outcome = "loaded") =>
    /\ {rules[i] : i \in 1..Len(rules)} = RulesOf(LoadedConfig)
    /\ exceptions = ExceptionsOf(LoadedConfig)
    /\ \A i \in 1..Len(lastApply.evaluated) :
         \E r \in RulesOf(LoadedConfig) : r.id = lastApply.evaluated[i]

====
